---- MODULE Spec2Model ----
(***************************************************************************)
(* Model of kits/editor-kit.ts: the process-wide editor kit singleton      *)
(* (getEditorKit / buildEditorKit / getKitExtensionCreators) and the       *)
(* composition of the kit's extensions (addExtensions).                    *)
(***************************************************************************)
EXTENDS Integers, Sequences, FiniteSets, TLC

\* ------------------------------------------------------------------ bounds
MaxFactories == 2
NumCallers == 2
MaxCompositions == 2

Callers == 1..NumCallers

\* ------------------------------------------------------------------ values
\* `editorKitPromise === undefined`; promise handles are 1, 2, ...
Undefined == 0

\* A factory result that is null or undefined (`ext != null` is false).
Null == [name |-> "null"]

\* Registry entries { index, create }. The reference `create` is named after
\* what the resource behind it does: "missing" cannot be located by
\* getResource; the others resolve to a factory that returns a capability
\* ("always"), returns one in full mode and null in compact mode ("fullOnly"),
\* or throws when invoked ("throws").
\* Entries registered in the lifecycle specification.
RegistryEntries ==
  { [index |-> 100, create |-> "always"],
    [index |-> 100, create |-> "fullOnly"],
    [index |-> 150, create |-> "throws"],
    [index |-> 10, create |-> "missing"] }

\* Entries of the composition specification: ties with a table entry (10),
\* with a static entry (100) and between two factories (100), and an entry
\* between the static priorities (150).
ComposeEntries ==
  { [index |-> 10, create |-> "always"],
    [index |-> 100, create |-> "always"],
    [index |-> 100, create |-> "fullOnly"],
    [index |-> 150, create |-> "always"] }

Modes == {"undefined", "full", "compact"}
SubmitValues == {"false", "undefined", "useModKey", "noModKey"}
ToggleValues == {"false", "undefined"}

NoContext == [objectId |-> "undefined", objectClass |-> "undefined", objectSpace |-> "undefined"]
DocContext == [objectId |-> "doc1", objectClass |-> "class1", objectSpace |-> "space1"]

MkOptions(mode, submit, file, image, ctx) ==
  [mode |-> mode, submit |-> submit, file |-> file, image |-> image,
   objectId |-> ctx.objectId, objectClass |-> ctx.objectClass, objectSpace |-> ctx.objectSpace]

\* Options of the lifecycle specification: every mode; with and without context.
LifecycleOptions ==
  { MkOptions("undefined", "undefined", "undefined", "undefined", NoContext),
    MkOptions("full", "undefined", "undefined", "undefined", DocContext),
    MkOptions("compact", "undefined", "undefined", "undefined", DocContext) }

\* Options of the composition specification: every mode and every toggle.
ComposeOptions ==
  { MkOptions(m, s, f, i, c) :
      m \in Modes, s \in SubmitValues, f \in ToggleValues, i \in ToggleValues, c \in {DocContext} }

\* ------------------------------------------------------------------ state
VARIABLES
  registry,          \* the TextEditorExtensionFactory documents of the model, in findAllSync order
  editorKitPromise,  \* the module variable: Undefined or a promise handle
  promises,          \* the promises buildEditorKit has returned, by handle
  callers,           \* each caller of getEditorKit: where it is and what it received
  findAllSyncCalls,  \* number of registry queries made
  getResourceCalls,  \* the references handed to getResource, in call order
  compositions,      \* number of addExtensions runs
  invoked,           \* per creator position: how often its factory has been invoked
  lastComposition,   \* the latest addExtensions run
  lateCaller,        \* history: the latest caller that called after the build had settled (0: none)
  tableKit,          \* the contents of the exported array tableKitExtensions
  repeated           \* history: the latest addExtensions run had the options of the run before it

vars == <<registry, editorKitPromise, promises, callers, findAllSyncCalls,
          getResourceCalls, compositions, invoked, lastComposition, lateCaller,
          tableKit, repeated>>

\* ------------------------------------------------------------------ helpers
RECURSIVE SeqsUpTo(_, _)
SeqsUpTo(S, n) ==
  IF n = 0 THEN {<<>>}
  ELSE LET shorter == SeqsUpTo(S, n - 1)
       IN shorter \cup { Append(s, e) : s \in {t \in shorter : Len(t) = n - 1}, e \in S }

\* ------------------------------------------------------------------ resolver
\* getResource(create): settles the reference as resolved or rejected.
GetResource(create) == IF create = "missing" THEN "rejected" ELSE "resolved"

\* The entry whose rejection Promise.all reports: the first one to be rejected
\* (0 when none is).
FirstRejected(settled, order) ==
  LET rej == { k \in 1..Len(order) : settled[order[k]] = "rejected" }
  IN IF rej = {} THEN 0 ELSE order[CHOOSE k \in rej : \A j \in rej : k <= j]

\* Promise.all over the per-entry promises of getKitExtensionCreators:
\* rejected as soon as one entry is rejected (with the first rejection),
\* fulfilled when every entry is resolved, with the values in input order.
PromiseAllValueInCompletionOrder(issued, settled, order) ==
  [state |-> IF \E i \in 1..Len(issued) : settled[i] = "rejected" THEN "rejected"
             ELSE IF \A i \in 1..Len(issued) : settled[i] = "resolved" THEN "fulfilled"
             ELSE "pending",
   value |-> [k \in 1..Len(order) |-> <<issued[order[k]].index, issued[order[k]].create>>],
   reason |-> FirstRejected(settled, order)]

PromiseAllSettledOnly(issued, settled, order) ==
  LET idx == SelectSeq([i \in 1..Len(issued) |-> i], LAMBDA i : settled[i] = "resolved")
  IN [state |-> IF \A i \in 1..Len(issued) : settled[i] # "pending" THEN "fulfilled" ELSE "pending",
      value |-> [k \in 1..Len(idx) |-> <<issued[idx[k]].index, issued[idx[k]].create>>],
      reason |-> FirstRejected(settled, order)]

PromiseAll(issued, settled, order) ==
  [state |-> IF \E i \in 1..Len(issued) : settled[i] = "rejected" THEN "rejected"
             ELSE IF \A i \in 1..Len(issued) : settled[i] = "resolved" THEN "fulfilled"
             ELSE "pending",
   value |-> [i \in 1..Len(issued) |-> <<issued[i].index, issued[i].create>>],
   reason |-> FirstRejected(settled, order)]

\* ------------------------------------------------------------------ kit builder
\* const mode = this.options.mode ?? 'full'
EffectiveModeAlwaysFull(options) == "full"

EffectiveMode(options) == IF options.mode = "undefined" THEN "full" ELSE options.mode

\* { objectId, objectClass, objectSpace } handed to every dynamic factory
FactoryContext(options) ==
  [objectId |-> options.objectId, objectClass |-> options.objectClass, objectSpace |-> options.objectSpace]

\* createExtension(mode, ctx) of the factory a reference resolved to.
CreateExtension(factory, mode, ctx) ==
  CASE factory = "always" -> [threw |-> FALSE, ext |-> [name |-> "dynamic", factory |-> factory, mode |-> mode, ctx |-> ctx]]
    [] factory = "fullOnly" ->
         [threw |-> FALSE,
          ext |-> IF mode = "full" THEN [name |-> "dynamic", factory |-> factory, mode |-> mode, ctx |-> ctx]
                  ELSE Null]
    [] OTHER -> [threw |-> TRUE, ext |-> Null]

\* The factories kitExtensionCreators.map(...) invokes, in order: all of them,
\* or those up to and including the first one that throws.
FirstThrow(creators, mode, ctx) ==
  LET throwing == { i \in 1..Len(creators) : CreateExtension(creators[i][2], mode, ctx).threw }
  IN IF throwing = {} THEN 0 ELSE CHOOSE i \in throwing : \A j \in throwing : i <= j

FactoryCallsTwice(creators, mode, ctx) ==
  LET t == FirstThrow(creators, mode, ctx)
      n == IF t = 0 THEN Len(creators) ELSE t
  IN [k \in 1..(2 * n) |-> [pos |-> (k + 1) \div 2, mode |-> mode, ctx |-> ctx]]

FactoryCallsStopAtNull(creators, mode, ctx) ==
  LET stop == { i \in 1..Len(creators) :
                  CreateExtension(creators[i][2], mode, ctx).threw
                  \/ CreateExtension(creators[i][2], mode, ctx).ext = Null }
      n == IF stop = {} THEN Len(creators) ELSE CHOOSE i \in stop : \A j \in stop : i <= j
  IN [k \in 1..n |-> [pos |-> k, mode |-> mode, ctx |-> ctx]]

FactoryCalls(creators, mode, ctx) ==
  LET t == FirstThrow(creators, mode, ctx)
      n == IF t = 0 THEN Len(creators) ELSE t
  IN [k \in 1..n |-> [pos |-> k, mode |-> mode, ctx |-> ctx]]

\* .filter(([_, ext]) => ext != null)
FilterNonNullKeepsAll(exts) == exts

FilterNonNull(exts) == SelectSeq(exts, LAMBDA e : e[2] # Null)

\* modelKitExtensions: [idx, createExtension(mode, ctx)] for every creator, nulls dropped.
ModelKitExtensionsSwallow(creators, mode, ctx) ==
  [threw |-> FALSE,
   exts |-> FilterNonNull([i \in 1..Len(creators) |->
                             <<creators[i][1], CreateExtension(creators[i][2], mode, ctx).ext>>])]

ModelKitExtensionsByPosition(creators, mode, ctx) ==
  IF FirstThrow(creators, mode, ctx) # 0
  THEN [threw |-> TRUE, exts |-> <<>>]
  ELSE [threw |-> FALSE,
        exts |-> FilterNonNull([i \in 1..Len(creators) |->
                                  <<i, CreateExtension(creators[i][2], mode, ctx).ext>>])]

ModelKitExtensions(creators, mode, ctx) ==
  IF FirstThrow(creators, mode, ctx) # 0
  THEN [threw |-> TRUE, exts |-> <<>>]
  ELSE [threw |-> FALSE,
        exts |-> FilterNonNull([i \in 1..Len(creators) |->
                                  <<creators[i][1], CreateExtension(creators[i][2], mode, ctx).ext>>])]

\* export const tableKitExtensions: the array as the module creates it
tableKitExtensions ==
  << <<10, [name |-> "Table"]>>, <<20, [name |-> "TableRow"]>>,
     <<30, [name |-> "TableHeader"]>>, <<40, [name |-> "TableCell"]>> >>

\* SubmitExtension.configure({ useModKey: mode === 'full', ...this.options.submit })
SubmitUseModKeyModeWins(options, mode) == mode = "full"

SubmitUseModKey(options, mode) ==
  CASE options.submit = "useModKey" -> TRUE
    [] options.submit = "noModKey" -> FALSE
    [] OTHER -> mode = "full"

StaticKitExtensionsFileAlways(options, mode) ==
  << <<100, [name |-> "DefaultKit", options |-> options]>>,
     <<200, [name |-> "CodeBlock"]>>,
     <<210, [name |-> "Code"]>>,
     <<220, [name |-> "HardBreak", shortcuts |-> mode]>> >>
  \o (IF options.submit # "false"
      THEN << <<300, [name |-> "Submit", useModKey |-> SubmitUseModKey(options, mode)]>> >>
      ELSE <<>>)
  \o (IF mode = "compact" THEN << <<400, [name |-> "Paragraph"]>> >> ELSE <<>>)
  \o << <<500, [name |-> "ListKeymap"]>>, <<600, [name |-> "NodeUuid"]>>,
        <<700, [name |-> "File", inline |-> TRUE]>> >>
  \o (IF options.image # "false" THEN << <<800, [name |-> "Image", inline |-> TRUE]>> >> ELSE <<>>)

\* staticKitExtensions, in the order the code pushes them
StaticKitExtensions(options, mode) ==
  << <<100, [name |-> "DefaultKit", options |-> options]>>,
     <<200, [name |-> "CodeBlock"]>>,
     <<210, [name |-> "Code"]>>,
     <<220, [name |-> "HardBreak", shortcuts |-> mode]>> >>
  \o (IF options.submit # "false"
      THEN << <<300, [name |-> "Submit", useModKey |-> SubmitUseModKey(options, mode)]>> >>
      ELSE <<>>)
  \o (IF mode = "compact" THEN << <<400, [name |-> "Paragraph"]>> >> ELSE <<>>)
  \o << <<500, [name |-> "ListKeymap"]>>, <<600, [name |-> "NodeUuid"]>> >>
  \o (IF options.file # "false" THEN << <<700, [name |-> "File", inline |-> TRUE]>> >> ELSE <<>>)
  \o (IF options.image # "false" THEN << <<800, [name |-> "Image", inline |-> TRUE]>> >> ELSE <<>>)

\* allKitExtensions.sort((a, b) => a[0] - b[0]): Array.prototype.sort is stable.
\* Insertion of e into a sorted list, after the entries that do not compare
\* greater than it (so that equal priorities keep their order).
InsertAt(sorted, e, k) == SubSeq(sorted, 1, k) \o <<e>> \o SubSeq(sorted, k + 1, Len(sorted))

InsertBeforeEqual(sorted, e) ==
  InsertAt(sorted, e, Len(SelectSeq(sorted, LAMBDA x : x[1] < e[1])))

Insert(sorted, e) ==
  InsertAt(sorted, e, Len(SelectSeq(sorted, LAMBDA x : x[1] <= e[1])))

RECURSIVE SortByPriority(_)
SortByPriority(s) ==
  IF s = <<>> THEN <<>>
  ELSE Insert(SortByPriority(SubSeq(s, 1, Len(s) - 1)), s[Len(s)])

\* [...tableKitExtensions, ...modelKitExtensions, ...staticKitExtensions]
MergeStaticFirst(model, static) == static \o model \o tableKit

Merge(model, static) == tableKit \o model \o static

\* The exported array after a run: the spread at `allKitExtensions = [...]`
\* copies it, so the sort of allKitExtensions does not touch it.
SharedTableAliased(table, sorted) == IF sorted = <<>> THEN table ELSE sorted

SharedTableAfter(table, sorted) == table

\* return allKitExtensions.map(([_, ext]) => ext)
Flatten(sorted) == [i \in 1..Len(sorted) |-> sorted[i][2]]

ComposeRecord(status, options, calls, merged, sorted) ==
  [status |-> status, options |-> options, calls |-> calls,
   merged |-> merged, sorted |-> sorted, extensions |-> Flatten(sorted)]

ComposeMerged(options, calls, merged) ==
  ComposeRecord("ok", options, calls, merged, SortByPriority(merged))

ComposeParts(options, calls, model, static) ==
  IF model.threw
  THEN ComposeRecord("threw", options, calls, <<>>, <<>>)
  ELSE ComposeMerged(options, calls, Merge(model.exts, static))

ComposeInMode(creators, options, mode, ctx) ==
  ComposeParts(options, FactoryCalls(creators, mode, ctx),
               ModelKitExtensions(creators, mode, ctx), StaticKitExtensions(options, mode))

\* One run of addExtensions on a kit built from `creators`, configured with
\* `options`: the factory calls made, the merged list, the sorted list and the
\* returned extensions; or "threw" when a factory threw.
Compose(creators, options) ==
  ComposeInMode(creators, options, EffectiveMode(options), FactoryContext(options))

\* ------------------------------------------------------------------ operations
NoComposition ==
  [status |-> "none", options |-> MkOptions("undefined", "undefined", "undefined", "undefined", NoContext),
   calls |-> <<>>, merged |-> <<>>, sorted |-> <<>>, extensions |-> <<>>]

IdleCaller == [pc |-> "idle", promise |-> Undefined, result |-> "none", reason |-> 0]

Init ==
  /\ registry = <<>>
  /\ editorKitPromise = Undefined
  /\ promises = <<>>
  /\ callers = [c \in Callers |-> IdleCaller]
  /\ findAllSyncCalls = 0
  /\ getResourceCalls = <<>>
  /\ compositions = 0
  /\ invoked = [i \in 1..MaxFactories |-> 0]
  /\ lastComposition = NoComposition
  /\ lateCaller = 0
  /\ tableKit = tableKitExtensions
  /\ repeated = FALSE

\* The settlement of the promise getKitExtensionCreators returned.
CreatorsPromise(p) ==
  IF p.queryThrew
  THEN [state |-> "rejected", value |-> <<>>, reason |-> 0]
  ELSE PromiseAll(p.issued, p.settled, p.order)

\* A factory document is added to the model.
RegisterFactory(e) ==
  /\ Len(registry) < MaxFactories
  /\ registry' = Append(registry, e)
  /\ UNCHANGED <<editorKitPromise, promises, callers, findAllSyncCalls, getResourceCalls,
                 compositions, invoked, lastComposition, lateCaller, tableKit, repeated>>

\* if (editorKitPromise === undefined)
NeedsBuildAlways(promise, all) == TRUE

NeedsBuildRetryRejected(promise, all) ==
  promise = Undefined \/ all[promise].state = "rejected"

NeedsBuild(promise, all) == promise = Undefined

\* buildEditorKit() up to its first suspension: the registry is queried and
\* getResource is called for every entry found.
BuildEditorKit(found, queryThrows) ==
  [state |-> "pending",
   queryThrew |-> queryThrows,
   queried |-> found,
   issued |-> IF queryThrows THEN <<>> ELSE found,
   settled |-> IF queryThrows THEN <<>> ELSE [i \in 1..Len(found) |-> "pending"],
   order |-> <<>>,
   creators |-> <<>>,
   reason |-> 0]

\* getEditorKit() up to `await editorKitPromise`.
GetEditorKit(c, queryThrows) ==
  /\ callers[c].pc = "idle"
  /\ LET build == NeedsBuild(editorKitPromise, promises)
         p == BuildEditorKit(registry, queryThrows)
         handle == IF build THEN Len(promises) + 1 ELSE editorKitPromise
     IN /\ (~build => ~queryThrows)
        /\ promises' = IF build THEN Append(promises, p) ELSE promises
        /\ editorKitPromise' = handle
        /\ findAllSyncCalls' = IF build THEN findAllSyncCalls + 1 ELSE findAllSyncCalls
        /\ getResourceCalls' =
             IF build THEN getResourceCalls \o [i \in 1..Len(p.issued) |-> p.issued[i].create]
             ELSE getResourceCalls
        /\ callers' = [callers EXCEPT ![c] =
             [pc |-> "awaiting", promise |-> handle, result |-> "none", reason |-> 0]]
        /\ lateCaller' = IF editorKitPromise # Undefined /\ promises[editorKitPromise].state # "pending"
                         THEN c ELSE lateCaller
  /\ UNCHANGED <<registry, compositions, invoked, lastComposition, tableKit, repeated>>

\* One `await getResource(create)` of the build behind handle h settles.
SettleResource(h, i) ==
  /\ h \in DOMAIN promises
  /\ i \in DOMAIN promises[h].issued
  /\ promises[h].settled[i] = "pending"
  /\ promises' = [promises EXCEPT
       ![h].settled[i] = GetResource(promises[h].issued[i].create),
       ![h].order = Append(@, i)]
  /\ UNCHANGED <<registry, editorKitPromise, callers, findAllSyncCalls, getResourceCalls,
                 compositions, invoked, lastComposition, lateCaller, tableKit, repeated>>

BuildThenRequery(h) ==
  /\ h \in DOMAIN promises
  /\ promises[h].state = "pending"
  /\ CreatorsPromise(promises[h]).state = "fulfilled"
  /\ promises' = [promises EXCEPT
       ![h].state = "fulfilled",
       ![h].creators = [i \in 1..Len(registry) |-> <<registry[i].index, registry[i].create>>]]
  /\ UNCHANGED <<registry, editorKitPromise, callers, findAllSyncCalls, getResourceCalls,
                 compositions, invoked, lastComposition, lateCaller, tableKit, repeated>>

\* .then((kitExtensionCreators) => resolve(Extension.create({...})))
BuildThen(h) ==
  /\ h \in DOMAIN promises
  /\ promises[h].state = "pending"
  /\ CreatorsPromise(promises[h]).state = "fulfilled"
  /\ promises' = [promises EXCEPT
       ![h].state = "fulfilled",
       ![h].creators = CreatorsPromise(promises[h]).value]
  /\ UNCHANGED <<registry, editorKitPromise, callers, findAllSyncCalls, getResourceCalls,
                 compositions, invoked, lastComposition, lateCaller, tableKit, repeated>>

BuildCatchSwallows(h) ==
  /\ h \in DOMAIN promises
  /\ promises[h].state = "pending"
  /\ CreatorsPromise(promises[h]).state = "rejected"
  /\ UNCHANGED vars

\* .catch((err) => reject(err))
BuildCatch(h) ==
  /\ h \in DOMAIN promises
  /\ promises[h].state = "pending"
  /\ CreatorsPromise(promises[h]).state = "rejected"
  /\ promises' = [promises EXCEPT
       ![h].state = "rejected",
       ![h].reason = CreatorsPromise(promises[h]).reason]
  /\ UNCHANGED <<registry, editorKitPromise, callers, findAllSyncCalls, getResourceCalls,
                 compositions, invoked, lastComposition, lateCaller, tableKit, repeated>>

\* `return await editorKitPromise` resumes in caller c.
Resume(c) ==
  /\ callers[c].pc = "awaiting"
  /\ promises[callers[c].promise].state # "pending"
  /\ callers' = [callers EXCEPT ![c].pc = "done",
                                ![c].result = promises[callers[c].promise].state,
                                ![c].reason = promises[callers[c].promise].reason]
  /\ UNCHANGED <<registry, editorKitPromise, promises, findAllSyncCalls, getResourceCalls,
                 compositions, invoked, lastComposition, lateCaller, tableKit, repeated>>

\* The number of calls in `calls` made to the factory at position i.
CallsTo(calls, i) == Cardinality({ k \in DOMAIN calls : calls[k].pos = i })

\* The effects of one addExtensions run.
RecordComposition(run) ==
  /\ lastComposition' = run
  /\ invoked' = [i \in DOMAIN invoked |-> invoked[i] + CallsTo(run.calls, i)]
  /\ compositions' = compositions + 1
  /\ tableKit' = SharedTableAfter(tableKit, run.sorted)
  /\ repeated' = (lastComposition.status # "none" /\ run.options = lastComposition.options)

\* Caller c configures the kit it received with `options` and an editor runs
\* the kit's addExtensions().
AddExtensions(c, options) ==
  /\ callers[c].pc = "done"
  /\ callers[c].result = "fulfilled"
  /\ compositions < MaxCompositions
  /\ RecordComposition(Compose(promises[callers[c].promise].creators, options))
  /\ UNCHANGED <<registry, editorKitPromise, promises, callers, findAllSyncCalls, getResourceCalls,
                 lateCaller>>

Next ==
  \/ \E e \in RegistryEntries : RegisterFactory(e)
  \/ \E c \in Callers, t \in BOOLEAN : GetEditorKit(c, t)
  \/ \E h \in DOMAIN promises, i \in 1..MaxFactories : SettleResource(h, i)
  \/ \E h \in DOMAIN promises : BuildThen(h)
  \/ \E h \in DOMAIN promises : BuildCatch(h)
  \/ \E c \in Callers : Resume(c)
  \/ \E c \in Callers, o \in LifecycleOptions : AddExtensions(c, o)

Spec == Init /\ [][Next]_vars

\* ------------------------------------------------------------------ request specification
\* The calls of getEditorKit and the build, without the later uses of the kit,
\* under the scheduling the runtime gives: every issued getResource settles, and
\* a reaction that is ready (.then, .catch, the continuation of an await) runs.
NextRequests ==
  \/ \E e \in RegistryEntries : RegisterFactory(e)
  \/ \E c \in Callers, t \in BOOLEAN : GetEditorKit(c, t)
  \/ \E h \in DOMAIN promises, i \in 1..MaxFactories : SettleResource(h, i)
  \/ \E h \in DOMAIN promises : BuildThen(h)
  \/ \E h \in DOMAIN promises : BuildCatch(h)
  \/ \E c \in Callers : Resume(c)

Fairness ==
  /\ WF_vars(\E h \in DOMAIN promises, i \in 1..MaxFactories : SettleResource(h, i))
  /\ WF_vars(\E h \in DOMAIN promises : BuildThen(h))
  /\ WF_vars(\E h \in DOMAIN promises : BuildCatch(h))
  /\ \A c \in Callers : WF_vars(Resume(c))

SpecLive == Init /\ [][NextRequests]_vars /\ Fairness

\* ------------------------------------------------------------------ composition specification
\* The state in which caller 1 has received a kit built from registry `found`
\* (queried, every reference resolved in registry order, build fulfilled).
BuiltKit(found) ==
  [state |-> "fulfilled",
   queryThrew |-> FALSE,
   queried |-> found,
   issued |-> found,
   settled |-> [i \in 1..Len(found) |-> "resolved"],
   order |-> [i \in 1..Len(found) |-> i],
   creators |-> PromiseAll(found, [i \in 1..Len(found) |-> "resolved"], [i \in 1..Len(found) |-> i]).value,
   reason |-> 0]

ComposeRegistries == SeqsUpTo(ComposeEntries, MaxFactories)

InitCompose ==
  /\ registry \in ComposeRegistries
  /\ editorKitPromise = 1
  /\ promises = <<BuiltKit(registry)>>
  /\ callers = [c \in Callers |->
       IF c = 1 THEN [pc |-> "done", promise |-> 1, result |-> "fulfilled", reason |-> 0]
       ELSE IdleCaller]
  /\ findAllSyncCalls = 1
  /\ getResourceCalls = [i \in 1..Len(registry) |-> registry[i].create]
  /\ compositions = 0
  /\ invoked = [i \in 1..MaxFactories |-> 0]
  /\ lastComposition = NoComposition
  /\ lateCaller = 0
  /\ tableKit = tableKitExtensions
  /\ repeated = FALSE

NextCompose == \E c \in Callers, o \in ComposeOptions : AddExtensions(c, o)

SpecCompose == InitCompose /\ [][NextCompose]_vars

\* ------------------------------------------------------------------ properties
\* The creators of the kit the module variable holds (empty before it is built).
KitCreators ==
  IF editorKitPromise = Undefined THEN <<>> ELSE promises[editorKitPromise].creators

Composed == lastComposition.status # "none"
ComposedOk == lastComposition.status = "ok"

CapabilityNames(exts) == [i \in 1..Len(exts) |-> exts[i].name]

\* C1: however many callers call getEditorKit, and however the calls interleave
\* with the build, one registry query is made, getResource is called once for
\* each entry the query found (for none when the query threw), every caller
\* awaits the one promise and all callers receive the same settlement of it.
C1_SingleBuild ==
  (\E c \in Callers : callers[c].pc # "idle") =>
    /\ findAllSyncCalls = 1
    /\ Len(promises) = 1
    /\ editorKitPromise = 1
    /\ getResourceCalls =
         IF promises[1].queryThrew THEN <<>>
         ELSE [i \in 1..Len(promises[1].queried) |-> promises[1].queried[i].create]
    /\ \A c \in Callers : callers[c].pc # "idle" => callers[c].promise = 1
    /\ \A c, d \in Callers :
         (callers[c].pc = "done" /\ callers[d].pc = "done") =>
           /\ callers[c].result = callers[d].result
           /\ callers[c].reason = callers[d].reason

\* Every caller called before the build settled, the registry held two
\* entries, and all callers have received the kit.
C1_Witness ==
  /\ NumCallers >= 2
  /\ lateCaller = 0
  /\ \A c \in Callers : callers[c].pc = "done" /\ callers[c].result = "fulfilled"
  /\ Len(getResourceCalls) >= 2

\* C2: a failed build rejects the promise the module variable holds; that
\* promise stays rejected with the same error, every caller (earlier or later)
\* awaits it and observes that error, and no second query or resolution is made.
C2_FailureShared ==
  /\ [](\A h \in DOMAIN promises :
          promises[h].state = "rejected" =>
            /\ editorKitPromise = h
            /\ Len(promises) = 1
            /\ findAllSyncCalls = 1
            /\ Len(getResourceCalls) = Len(promises[h].issued)
            /\ \A c \in Callers :
                 /\ callers[c].pc # "idle" => callers[c].promise = h
                 /\ callers[c].pc = "done" =>
                      /\ callers[c].result = "rejected"
                      /\ callers[c].reason = promises[h].reason)
  /\ [][\A h \in DOMAIN promises :
          promises[h].state = "rejected" =>
            /\ h \in DOMAIN promises'
            /\ promises'[h].state = "rejected"
            /\ promises'[h].reason = promises[h].reason]_vars

\* A caller that called after the build had failed has received the failure,
\* as has a caller that called before.
C2_Witness ==
  /\ lateCaller # 0
  /\ callers[lateCaller].pc = "done"
  /\ callers[lateCaller].result = "rejected"
  /\ \E c \in Callers : c # lateCaller /\ callers[c].pc = "done" /\ callers[c].result = "rejected"

\* C3 as stated: over the process lifetime no dynamic factory is invoked more
\* than once.
C3_InvokedOncePerLifetime == \A i \in DOMAIN invoked : invoked[i] <= 1

\* C3 amended: in one run of addExtensions every factory is invoked at most
\* once (exactly once when the run does not throw); over the process lifetime
\* a factory is invoked at most once per run, not once overall.
C3_OncePerComposition ==
  /\ \A i \in DOMAIN invoked : invoked[i] <= compositions
  /\ Composed =>
       \A i \in 1..Len(KitCreators) :
         /\ CallsTo(lastComposition.calls, i) <= 1
         /\ ComposedOk => CallsTo(lastComposition.calls, i) = 1

\* Two runs of addExtensions have invoked the same factory twice in all.
C3_Witness ==
  /\ compositions >= 2
  /\ \E i \in DOMAIN invoked : invoked[i] = 2

\* C4 as stated: whatever options the next composition is given, it yields the
\* same capabilities as the one before.
C4_SameSequenceWhateverOptions ==
  [][(ComposedOk /\ lastComposition'.status = "ok") =>
       CapabilityNames(lastComposition'.extensions) = CapabilityNames(lastComposition.extensions)]_vars

\* C4 amended: every caller receives the same kit, and each composition reads
\* mode and context from its own options: every factory is called with that
\* composition's effective mode and context, and the mode-dependent static
\* entries follow that mode.
C4_OptionsReadPerComposition ==
  /\ \A c \in Callers : callers[c].pc # "idle" => callers[c].promise = editorKitPromise
  /\ Composed =>
       LET o == lastComposition.options
           m == IF o.mode = "compact" THEN "compact" ELSE "full"
       IN /\ \A k \in DOMAIN lastComposition.calls :
               /\ lastComposition.calls[k].mode = m
               /\ lastComposition.calls[k].ctx.objectId = o.objectId
               /\ lastComposition.calls[k].ctx.objectClass = o.objectClass
               /\ lastComposition.calls[k].ctx.objectSpace = o.objectSpace
          /\ ComposedOk =>
               /\ (\E i \in DOMAIN lastComposition.extensions :
                     lastComposition.extensions[i].name = "Paragraph") <=> (o.mode = "compact")
               /\ \A i \in DOMAIN lastComposition.extensions :
                    /\ lastComposition.extensions[i].name = "HardBreak" =>
                         lastComposition.extensions[i].shortcuts = m
                    /\ lastComposition.extensions[i].name = "dynamic" =>
                         /\ lastComposition.extensions[i].mode = m
                         /\ lastComposition.extensions[i].ctx.objectId = o.objectId

\* A second composition, in compact mode with a context, has invoked a factory.
C4_Witness ==
  /\ compositions >= 2
  /\ ComposedOk
  /\ lastComposition.options.mode = "compact"
  /\ lastComposition.options.objectId = "doc1"
  /\ Len(lastComposition.calls) >= 1

\* C5 as stated: when a dynamic factory has thrown, the kit promise is rejected.
C5_ThrowFailsKitFuture ==
  lastComposition.status = "threw" => promises[editorKitPromise].state = "rejected"

\* C5 amended: a throwing factory makes every run of addExtensions throw, so
\* that no capability (static ones included) is returned by it, while the kit
\* promise stays fulfilled and every caller still receives the kit.
C5_ThrowFailsComposition ==
  Composed =>
    /\ (\E i \in 1..Len(KitCreators) : KitCreators[i][2] = "throws") <=> lastComposition.status = "threw"
    /\ lastComposition.status = "threw" =>
         /\ lastComposition.extensions = <<>>
         /\ promises[editorKitPromise].state = "fulfilled"
         /\ \A c \in Callers : callers[c].pc = "done" => callers[c].result = "fulfilled"

\* A composition on a kit with a throwing factory has thrown.
C5_Witness ==
  /\ lastComposition.status = "threw"
  /\ \E i \in 1..Len(KitCreators) : KitCreators[i][2] = "throws"

\* C6: the kit promise is fulfilled only when the query returned and every
\* reference it found was resolved; the kit then holds every entry found, in
\* order; a thrown query or one rejected reference leaves no fulfilled kit, and
\* a composition that returns has invoked a factory for every entry found.
C6_AllOrNothing ==
  /\ \A h \in DOMAIN promises :
       LET p == promises[h]
       IN /\ p.state = "fulfilled" =>
               /\ ~p.queryThrew
               /\ p.issued = p.queried
               /\ \A i \in 1..Len(p.queried) : p.settled[i] = "resolved"
               /\ p.creators = [i \in 1..Len(p.queried) |-> <<p.queried[i].index, p.queried[i].create>>]
          /\ (p.queryThrew \/ \E i \in 1..Len(p.issued) : p.settled[i] = "rejected") =>
               p.state # "fulfilled"
  /\ \A c \in Callers : callers[c].result = "fulfilled" => promises[callers[c].promise].state = "fulfilled"
  /\ ComposedOk => Len(lastComposition.calls) = Len(promises[editorKitPromise].queried)

\* The build was rejected although one of two references was resolved, and a
\* caller has received the rejection.
C6_Witness ==
  /\ editorKitPromise # Undefined
  /\ promises[editorKitPromise].state = "rejected"
  /\ \E i, j \in 1..Len(promises[editorKitPromise].issued) :
       /\ promises[editorKitPromise].settled[i] = "resolved"
       /\ promises[editorKitPromise].settled[j] = "rejected"
  /\ \E c \in Callers : callers[c].result = "rejected"

\* The entries of priority k in construction order: table entries, then the
\* non-null results of the creators in registry order, then static entries.
AtPriority(s, k) == SelectSeq(s, LAMBDA e : e[1] = k)

ExpectedAtPriority(creators, options, k) ==
  LET mode == IF options.mode = "compact" THEN "compact" ELSE "full"
      ctx == [objectId |-> options.objectId, objectClass |-> options.objectClass,
              objectSpace |-> options.objectSpace]
      dyn == [i \in 1..Len(creators) |-> <<creators[i][1], CreateExtension(creators[i][2], mode, ctx).ext>>]
  IN AtPriority(tableKitExtensions, k)
     \o SelectSeq(dyn, LAMBDA e : e[1] = k /\ e[2] # Null)
     \o AtPriority(StaticKitExtensions(options, mode), k)

\* C7: the composed list is in ascending priority order, and the entries of
\* each priority are the table entries, then the dynamic entries in registry
\* order, then the static entries.
C7_SortedStable ==
  ComposedOk =>
    LET s == lastComposition.sorted
    IN /\ \A i \in 1..(Len(s) - 1) : s[i][1] <= s[i + 1][1]
       /\ \A i \in 1..Len(s) :
            AtPriority(s, s[i][1]) = ExpectedAtPriority(KitCreators, lastComposition.options, s[i][1])
       /\ lastComposition.extensions = [i \in 1..Len(s) |-> s[i][2]]

\* A composition in which a dynamic entry ties with a static entry at 100 and
\* another with a table entry at 10, the registry not being in priority order.
C7_Witness ==
  /\ ComposedOk
  /\ Len(AtPriority(lastComposition.sorted, 100)) >= 2
  /\ Len(AtPriority(lastComposition.sorted, 10)) >= 2
  /\ \E i, j \in 1..Len(KitCreators) : i < j /\ KitCreators[i][1] > KitCreators[j][1]

\* C8: whatever order the resolutions completed in, the composition is the one
\* obtained from the entries in registry order.
C8_CompletionOrderIrrelevant ==
  Composed =>
    LET q == promises[editorKitPromise].queried
    IN lastComposition = Compose([i \in 1..Len(q) |-> <<q[i].index, q[i].create>>], lastComposition.options)

\* The second reference was resolved before the first, and both factories
\* contributed an entry of the same priority.
C8_Witness ==
  /\ ComposedOk
  /\ Len(promises[editorKitPromise].order) >= 2
  /\ promises[editorKitPromise].order[1] > promises[editorKitPromise].order[2]
  /\ \E i, j \in DOMAIN lastComposition.sorted :
       /\ i < j
       /\ lastComposition.sorted[i][1] = lastComposition.sorted[j][1]
       /\ lastComposition.sorted[i][2].name = "dynamic"
       /\ lastComposition.sorted[j][2].name = "dynamic"
       /\ lastComposition.sorted[i][2] # lastComposition.sorted[j][2]

\* C9: no null capability is in the composed list or in the returned sequence.
C9_NoNull ==
  ComposedOk =>
    /\ \A i \in DOMAIN lastComposition.sorted : lastComposition.sorted[i][2] # Null
    /\ \A i \in DOMAIN lastComposition.extensions : lastComposition.extensions[i] # Null

\* A composition in compact mode on a kit with a factory that returns null in
\* compact mode.
C9_Witness ==
  /\ ComposedOk
  /\ lastComposition.options.mode = "compact"
  /\ \E i \in 1..Len(KitCreators) : KitCreators[i][2] = "fullOnly"

\* C10: once the module variable holds a promise it holds that promise in
\* every later state, and the step that first sets it is a getEditorKit call
\* that installs a pending promise.
C10_WrittenOnce ==
  [][/\ editorKitPromise # Undefined => editorKitPromise' = editorKitPromise
     /\ (editorKitPromise = Undefined /\ editorKitPromise' # Undefined) =>
          /\ promises'[editorKitPromise'].state = "pending"
          /\ \E c \in Callers : callers[c].pc = "idle" /\ callers'[c].pc = "awaiting"]_vars

\* A call made after the build had settled has returned.
C10_Witness ==
  /\ editorKitPromise # Undefined
  /\ lateCaller # 0
  /\ callers[lateCaller].pc = "done"

Priorities(sorted) == [i \in 1..Len(sorted) |-> sorted[i][1]]

\* The sequence s without the entries of priority k.
WithoutPriority(s, k) == SelectSeq(s, LAMBDA e : e[1] # k)

SortedNames(sorted) == [i \in 1..Len(sorted) |-> <<sorted[i][1], sorted[i][2].name>>]

\* The option values that differ only in including or excluding one entry.
SameBut(o1, o2, field) ==
  /\ field # "mode" => o1.mode = o2.mode
  /\ field # "submit" => o1.submit = o2.submit
  /\ field # "file" => o1.file = o2.file
  /\ field # "image" => o1.image = o2.image
  /\ o1.objectId = o2.objectId /\ o1.objectClass = o2.objectClass /\ o1.objectSpace = o2.objectSpace

OwnPriority(field) ==
  CASE field = "submit" -> 300 [] field = "mode" -> 400 [] field = "file" -> 700 [] OTHER -> 800

\* C11: with an empty registry the priorities of the composed list are 10, 20,
\* 30, 40, 100, 200, 210, 220, 500, 600, with 300 iff submit is not false, 400
\* iff mode is compact, 700 iff file is not false and 800 iff image is not
\* false, in ascending order; and two compositions whose options differ in
\* one of these options only differ in that option's own entry only.
C11_StaticPriorities ==
  /\ []((ComposedOk /\ KitCreators = <<>>) =>
          LET o == lastComposition.options
          IN Priorities(lastComposition.sorted) =
               <<10, 20, 30, 40, 100, 200, 210, 220>>
               \o (IF o.submit # "false" THEN <<300>> ELSE <<>>)
               \o (IF o.mode = "compact" THEN <<400>> ELSE <<>>)
               \o <<500, 600>>
               \o (IF o.file # "false" THEN <<700>> ELSE <<>>)
               \o (IF o.image # "false" THEN <<800>> ELSE <<>>))
  /\ [][(ComposedOk /\ KitCreators = <<>> /\ lastComposition'.status = "ok") =>
          \A field \in {"submit", "mode", "file", "image"} :
            SameBut(lastComposition.options, lastComposition'.options, field) =>
              SortedNames(WithoutPriority(lastComposition'.sorted, OwnPriority(field)))
                = SortedNames(WithoutPriority(lastComposition.sorted, OwnPriority(field)))]_vars

\* With an empty registry, a compact composition without submit and file
\* follows a composition with other options.
C11_Witness ==
  /\ KitCreators = <<>>
  /\ ComposedOk
  /\ compositions >= 2
  /\ lastComposition.options.mode = "compact"
  /\ lastComposition.options.submit = "false"
  /\ lastComposition.options.file = "false"
  /\ lastComposition.options.image = "undefined"

\* The non-null results of the creators at priority k, in registry order.
DynamicResults(creators, options) ==
  LET mode == IF options.mode = "compact" THEN "compact" ELSE "full"
      ctx == [objectId |-> options.objectId, objectClass |-> options.objectClass,
              objectSpace |-> options.objectSpace]
  IN SelectSeq([i \in 1..Len(creators) |-> <<creators[i][1], CreateExtension(creators[i][2], mode, ctx).ext>>],
               LAMBDA e : e[2] # Null)

PositionsOf(sorted, name) == { k \in DOMAIN sorted : sorted[k][2].name = name }

\* C12: whatever the static options, the dynamic entries of the composed list
\* are exactly the capabilities the factories returned, one entry each, under
\* their registered priorities, each after every entry of lower priority and
\* before every entry of higher priority; an entry of priority 150 lies after
\* the entry of priority 100 and before the entry of priority 200.
C12_DynamicPlacement ==
  ComposedOk =>
    LET s == lastComposition.sorted
        dyn == DynamicResults(KitCreators, lastComposition.options)
    IN /\ Cardinality(PositionsOf(s, "dynamic")) = Len(dyn)
       /\ \A p \in {10, 100, 150} :
            SelectSeq(s, LAMBDA e : e[1] = p /\ e[2].name = "dynamic") = AtPriority(dyn, p)
       /\ \A k \in PositionsOf(s, "dynamic") :
            /\ \A j \in DOMAIN s : s[j][1] < s[k][1] => j < k
            /\ \A j \in DOMAIN s : s[j][1] > s[k][1] => j > k
            /\ s[k][1] = 150 =>
                 /\ \A j \in PositionsOf(s, "DefaultKit") : j < k
                 /\ \A j \in PositionsOf(s, "CodeBlock") : k < j

\* A composition with submit and file disabled on a kit with a factory at 150
\* registered before one at 100.
C12_Witness ==
  /\ ComposedOk
  /\ lastComposition.options.submit = "false"
  /\ lastComposition.options.file = "false"
  /\ Len(KitCreators) >= 2
  /\ KitCreators[1][1] = 150
  /\ KitCreators[2][1] = 100
  /\ \E k \in PositionsOf(lastComposition.sorted, "dynamic") : lastComposition.sorted[k][1] = 150

\* C13: the submit entry requires the modifier key as the caller's submit
\* options say when they give useModKey, and otherwise exactly in full mode.
C13_SubmitModKey ==
  ComposedOk =>
    LET o == lastComposition.options
    IN /\ (o.submit # "false") <=> PositionsOf(lastComposition.sorted, "Submit") # {}
       /\ \A k \in PositionsOf(lastComposition.sorted, "Submit") :
            lastComposition.sorted[k][2].useModKey =
              (CASE o.submit = "useModKey" -> TRUE
                 [] o.submit = "noModKey" -> FALSE
                 [] OTHER -> o.mode # "compact")

\* A full-mode composition whose submit options set useModKey to false.
C13_Witness ==
  /\ ComposedOk
  /\ lastComposition.options.mode = "full"
  /\ lastComposition.options.submit = "noModKey"
  /\ \E k \in PositionsOf(lastComposition.sorted, "Submit") : ~lastComposition.sorted[k][2].useModKey

\* The extensions a factory of the given name contributed.
ContributedBy(exts, factory) ==
  SelectSeq(exts, LAMBDA e : e.name = "dynamic" /\ e.factory = factory)

CreatorsOf(creators, factory) == SelectSeq(creators, LAMBDA c : c[2] = factory)

\* C14 as stated: in every composition every resolved factory is invoked.
C14_EveryFactoryInvoked ==
  Composed => \A i \in 1..Len(KitCreators) : CallsTo(lastComposition.calls, i) = 1

\* C14 amended: a composition invokes the resolved factories in registry
\* order, all of them unless one throws (then those up to and including it),
\* each with the effective mode and the context of the composition's options;
\* a null result does not stop the invocations, and when none throws a factory
\* that returns null in compact mode only contributes in full mode and not in
\* compact mode, while every other factory contributes in both.
C14_UniformInvocation ==
  Composed =>
    LET o == lastComposition.options
        calls == lastComposition.calls
        throwing == { i \in 1..Len(KitCreators) : KitCreators[i][2] = "throws" }
        last == IF throwing = {} THEN Len(KitCreators)
                ELSE CHOOSE i \in throwing : \A j \in throwing : i <= j
    IN /\ [k \in 1..Len(calls) |-> calls[k].pos] = [k \in 1..last |-> k]
       /\ \A k \in DOMAIN calls :
            /\ calls[k].mode = (IF o.mode = "compact" THEN "compact" ELSE "full")
            /\ calls[k].ctx = [objectId |-> o.objectId, objectClass |-> o.objectClass,
                               objectSpace |-> o.objectSpace]
       /\ (throwing = {}) <=> ComposedOk
       /\ ComposedOk =>
            /\ Len(ContributedBy(lastComposition.extensions, "always"))
                 = Len(CreatorsOf(KitCreators, "always"))
            /\ Len(ContributedBy(lastComposition.extensions, "fullOnly"))
                 = IF o.mode = "compact" THEN 0 ELSE Len(CreatorsOf(KitCreators, "fullOnly"))

\* A compact composition on a kit whose first factory returns null in compact
\* mode: the second factory was invoked and contributed.
C14_Witness ==
  /\ ComposedOk
  /\ lastComposition.options.mode = "compact"
  /\ Len(KitCreators) = 2
  /\ KitCreators[1][2] = "fullOnly"
  /\ KitCreators[2][2] = "always"
  /\ Len(lastComposition.calls) = 2
  /\ Len(ContributedBy(lastComposition.extensions, "always")) = 1

\* C15: every caller that awaits the kit promise eventually receives its
\* settlement, whether it called before or after the build finished.
C15_EveryCallSettles ==
  \A c \in Callers : (callers[c].pc = "awaiting") ~> (callers[c].pc = "done")

\* Every caller has received a settlement, one of them having called after
\* the build had settled and one of them a rejection.
C15_Witness ==
  /\ \A c \in Callers : callers[c].pc = "done"
  /\ lateCaller # 0
  /\ \E c \in Callers : callers[c].result = "rejected" /\ callers[c].reason # 0

References(entries) == [i \in 1..Len(entries) |-> entries[i].create]

AsCreators(entries) == [i \in 1..Len(entries) |-> <<entries[i].index, entries[i].create>>]

\* C16: the step in which the module variable is first set makes the registry
\* query and issues getResource for every entry the registry holds at that
\* moment; no later step queries or issues again; and the dynamic entries of
\* every composition are results of the entries the registry held then, never
\* of an entry registered later.
C16_FactoriesFixedAtFirstCall ==
  /\ [][(editorKitPromise = Undefined /\ editorKitPromise' # Undefined) =>
          /\ findAllSyncCalls' = findAllSyncCalls + 1
          /\ promises'[editorKitPromise'].queried = registry
          /\ ~promises'[editorKitPromise'].queryThrew =>
               /\ promises'[editorKitPromise'].issued = registry
               /\ getResourceCalls' = getResourceCalls \o References(registry)]_vars
  /\ [][editorKitPromise # Undefined =>
          /\ findAllSyncCalls' = findAllSyncCalls
          /\ getResourceCalls' = getResourceCalls
          /\ promises'[editorKitPromise].queried = promises[editorKitPromise].queried]_vars
  /\ [](Composed =>
          LET q == promises[editorKitPromise].queried
              dyn == DynamicResults(AsCreators(q), lastComposition.options)
          IN /\ Len(lastComposition.calls) <= Len(q)
             /\ ComposedOk =>
                  /\ Cardinality(PositionsOf(lastComposition.sorted, "dynamic")) = Len(dyn)
                  /\ \A k \in PositionsOf(lastComposition.sorted, "dynamic") :
                       \E i \in DOMAIN dyn : dyn[i] = lastComposition.sorted[k])

\* A factory that always returns a capability was registered after the first
\* call, and a later composition holds one dynamic entry, from the factory
\* registered before the call.
C16_Witness ==
  /\ ComposedOk
  /\ Len(promises[editorKitPromise].queried) = 1
  /\ Len(registry) = 2
  /\ registry[2].create = "always"
  /\ Cardinality(PositionsOf(lastComposition.sorted, "dynamic")) = 1

\* C17: a factory has been invoked only if the kit promise is fulfilled, which
\* requires every issued reference to be resolved; while the promise is pending
\* or once it is rejected no factory has been invoked and none is composed.
C17_InvokedOnlyAfterSuccess ==
  /\ (Composed \/ \E i \in DOMAIN invoked : invoked[i] > 0) =>
       /\ editorKitPromise # Undefined
       /\ promises[editorKitPromise].state = "fulfilled"
       /\ ~promises[editorKitPromise].queryThrew
       /\ \A i \in DOMAIN promises[editorKitPromise].issued :
            promises[editorKitPromise].settled[i] = "resolved"
  /\ \A h \in DOMAIN promises :
       promises[h].state # "fulfilled" =>
         /\ ~Composed
         /\ compositions = 0
         /\ \A i \in DOMAIN invoked : invoked[i] = 0

\* The build failed although a factory that returns a capability had been
\* resolved; every caller has received the rejection and no factory was invoked.
C17_Witness ==
  /\ editorKitPromise # Undefined
  /\ promises[editorKitPromise].state = "rejected"
  /\ \E i \in DOMAIN promises[editorKitPromise].issued :
       /\ promises[editorKitPromise].settled[i] = "resolved"
       /\ promises[editorKitPromise].issued[i].create = "always"
  /\ \A c \in Callers : callers[c].pc = "done" /\ callers[c].result = "rejected"
  /\ \A i \in DOMAIN invoked : invoked[i] = 0

\* C18: a run of addExtensions leaves the exported table list as the module
\* created it and the kit's resolved creators as they were, and a run with the
\* options of the run before it returns what that run returned.
C18_CompositionLeavesInputs ==
  /\ [](tableKit = tableKitExtensions)
  /\ [][compositions' = compositions + 1 =>
          /\ tableKit' = tableKit
          /\ KitCreators' = KitCreators]_vars
  /\ [][(Composed /\ compositions' = compositions + 1
          /\ lastComposition'.options = lastComposition.options) =>
            /\ lastComposition'.status = lastComposition.status
            /\ lastComposition'.extensions = lastComposition.extensions]_vars

\* A run on a kit with a dynamic factory has repeated the options of the run
\* before it.
C18_Witness ==
  /\ repeated
  /\ ComposedOk
  /\ compositions >= 2
  /\ Len(KitCreators) >= 1

====
